---- MODULE Spec2Model ----
(***************************************************************************)
(* BlurbFlow (flowblurb.py): the row/page packing engine (PageBuilder,     *)
(* SmartPageBuilder) and the page-count optimizer (populate_single_page).  *)
(*                                                                         *)
(* Numbers.  The program computes in Python floats.  A float is modelled   *)
(* as an exact rational <<n, d>> in lowest terms with d > 0, so that       *)
(* equality of two rationals is equality of the pairs.  Only the           *)
(* optimizer's running image_height is rounded (see HUnit).                *)
(***************************************************************************)
EXTENDS Integers, Sequences, FiniteSets, TLC

----------------------------------------------------------------------------
(* Rational arithmetic: the float operators + - * / < <= of the source.    *)

RECURSIVE GCD(_, _)
GCD(a, b) == IF b = 0 THEN a ELSE GCD(b, a % b)

Abs(a) == IF a < 0 THEN -a ELSE a

Norm(n, d) ==
    IF d = 1 THEN << n, 1 >>
    ELSE LET g == GCD(Abs(n), Abs(d))
             s == IF d < 0 THEN -1 ELSE 1
         IN  << (s * n) \div g, (s * d) \div g >>

R(n) == << n, 1 >>

RAdd(x, y) ==
    IF x[2] = y[2] THEN Norm(x[1] + y[1], x[2])
    ELSE LET g == GCD(x[2], y[2])
         IN  Norm(x[1] * (y[2] \div g) + y[1] * (x[2] \div g), (x[2] \div g) * y[2])

RNeg(x) == << -x[1], x[2] >>

RSub(x, y) == RAdd(x, RNeg(y))

RMul(x, y) ==
    IF x[2] = 1 /\ y[2] = 1 THEN << x[1] * y[1], 1 >>
    ELSE LET a == Norm(x[1], y[2])
             b == Norm(y[1], x[2])
         IN  << a[1] * b[1], a[2] * b[2] >>

RDiv(x, y) == RMul(x, Norm(y[2], y[1]))

(* Denominators are positive, so comparing cross products compares.        *)
RLt(x, y) == x[1] * y[2] < y[1] * x[2]

RLe(x, y) == x[1] * y[2] <= y[1] * x[2]

RGt(x, y) == RLt(y, x)

RGe(x, y) == RLe(y, x)


(* math.sqrt on the rationals the model feeds it: perfect squares n/d.     *)
ISqrt(n) == CHOOSE k \in 0..n : k * k <= n /\ (k + 1) * (k + 1) > n

RSqrt(x) == << ISqrt(x[1]), ISqrt(x[2]) >>

----------------------------------------------------------------------------
(* Optional values: None is <<>>, a value v is <<v>>.                      *)

None == <<>>

Some(v) == << v >>

(* Python list helpers: pop() takes the last element, pop(0) the first.    *)
Last(s) == s[Len(s)]

Front(s) == SubSeq(s, 1, Len(s) - 1)

RECURSIVE Reverse(_)
Reverse(s) == IF s = <<>> THEN <<>> ELSE Append(Reverse(Tail(s)), s[1])

RemoveAt(s, k) == SubSeq(s, 1, k - 1) \o SubSeq(s, k + 1, Len(s))


----------------------------------------------------------------------------
(* Tuning constants written as literals in the source.                     *)

AspectBreak == << 33, 50 >>      \* 0.66

(* A ceiling of 1.5 in place of 1.2.                                       *)
FillCeiling_loose == << 3, 2 >>

FillCeiling == << 6, 5 >>        \* 1.2

LastRowCutoff == << 3, 4 >>      \* 0.75

----------------------------------------------------------------------------
(* ImageInfo and ScaledImageInfo (x and y are 0 until a page is generated) *)

ImageInfo(name, width, height) ==
    [name |-> name, width |-> width, height |-> height]

ScaledImageInfo(image, scale) == [image |-> image, scale |-> scale]

Aspect(image) == Norm(image.width, image.height)

ImgW(img) == RMul(R(img.image.width), img.scale)

ImgH(img) == RMul(R(img.image.height), img.scale)

----------------------------------------------------------------------------
(* class PageBuilder                                                       *)

(* self: args, images (a stack: the next image is the last element),       *)
(* page_height, incomplete, and SmartPageBuilder's fields.  got is a       *)
(* history of what PageBuilder._get_row returned, kept for the properties. *)
PageBuilder_init(args, images) ==
    [args |-> args,
     images |-> Reverse(images),
     page_height |-> RSub(args.page_height, RAdd(args.top, args.bottom)),
     incomplete |-> TRUE,
     all_rows |-> None, mode |-> 0, last_row |-> None, next_row |-> <<>>,
     last_width |-> R(0),
     got |-> <<>>]

RECURSIVE SumW(_)
SumW(row) == IF row = <<>> THEN R(0) ELSE RAdd(ImgW(row[1]), SumW(Tail(row)))

row_width_(self, row) ==
    RAdd(SumW(row), RMul(self.args.xspace, R(Len(row) - 1)))

RECURSIVE SumRowH(_)
SumRowH(rows) ==
    IF rows = <<>> THEN R(0) ELSE RAdd(ImgH(rows[1][1]), SumRowH(Tail(rows)))

page_height_(self, rows) ==
    RAdd(SumRowH(rows), RMul(self.args.yspace, R(Len(rows) - 1)))

(* _preferred_size: PageBuilder's, then SmartPageBuilder's override.       *)
PB_preferred_size(self, width, height, image) ==
    [w |-> RDiv(RMul(R(width), self.args.image_height), R(height)),
     h |-> self.args.image_height]

Smart_preferred_size(self, width, height, image) ==
    LET aspect == Aspect(image)
        scaledh == IF RGe(aspect, R(1))
                   THEN RDiv(self.args.image_height, RSqrt(aspect))
                   ELSE self.args.image_height
    IN  [w |-> RDiv(RMul(R(width), scaledh), R(height)), h |-> scaledh]

preferred_size_(self, width, height, image) ==
    IF self.args.smart THEN Smart_preferred_size(self, width, height, image)
    ELSE PB_preferred_size(self, width, height, image)

(* A fill scale that aims at the whole page width, gaps not deducted.      *)
row_scale_unspaced(self, row_width, page_width, row) ==
    LET whitespace == RMul(R(Len(row)), self.args.xspace)
    IN  RDiv(page_width, RSub(row_width, whitespace))

row_scale_(self, row_width, page_width, row) ==
    LET whitespace == RMul(R(Len(row)), self.args.xspace)
        target_width == RSub(page_width, whitespace)
    IN  RDiv(target_width, RSub(row_width, whitespace))

ScaleRow(row, f) ==
    [k \in 1..Len(row) |-> ScaledImageInfo(row[k].image, RMul(row[k].scale, f))]

(* One entry of the history got: the row returned, the row before the     *)
(* final rescale (pref) with its accumulated row_width, how the row ended  *)
(* ("break": an image was rejected, "end": the queue ran out), whether its *)
(* first image went through the too-wide/pano branch, the page width, the  *)
(* rejected image (None at the end of the queue) and the incomplete flag   *)
(* as the call left it.                                                    *)
GotEntry(row, pref, row_width, how, clamped, page_width, rejected, incomplete) ==
    [row |-> row, pref |-> pref, row_width |-> row_width, how |-> how,
     clamped |-> clamped, page_width |-> page_width, rejected |-> rejected,
     incomplete |-> incomplete]

(* Lines 149-160, the queue ran out with images in the row: need is the    *)
(* fill scale, big the test of line 152, ret the row returned.             *)
get_row_end_(self, page_width, row, row_width, clamped, big, ret) ==
    [self |-> [self EXCEPT !.incomplete = big,
                           !.got = Append(@, GotEntry(ret, row, row_width,
                                       "end", clamped, page_width, None, big))],
     ret |-> Some(ret), err |-> FALSE]

get_row_leftover_(self, page_width, row, row_width, clamped, need) ==
    get_row_end_(self, page_width, row, row_width, clamped, RGt(need, FillCeiling),
                 ScaleRow(row, IF RGt(need, FillCeiling) THEN R(1) ELSE need))

(* Lines 130-139, the image is rejected: it goes back on the queue and     *)
(* the row is returned, filled to the page width with --scale.             *)
get_row_break_(self, page_width, row, row_width, clamped, image, ret) ==
    [self |-> [self EXCEPT !.got = Append(@, GotEntry(ret, row, row_width,
                                       "break", clamped, page_width,
                                       Some(image), self.incomplete))],
     ret |-> Some(ret), err |-> FALSE]

(* Lines 140-146: a first image that is too wide or a pano is scaled to    *)
(* the page width, or to the page height if that is too tall (h1 is its    *)
(* height at the page width).                                              *)
clamp_size_(self, page_width, width, height, h1) ==
    IF RGt(h1, self.page_height)
    THEN [w |-> RDiv(RMul(R(width), self.page_height), R(height)), h |-> self.page_height]
    ELSE [w |-> page_width, h |-> h1]

(* The body of the while loop of _get_row (lines 110-148) for image, with  *)
(* first the image the row started with, pref its preferred size and brk   *)
(* the test of lines 126-127.                                              *)
RECURSIVE get_row_loop(_, _, _, _, _, _)
get_row_add_(self, page_width, row, row_width, clamped, image, first, size, brk) ==
    get_row_loop([self EXCEPT !.images = Front(@)], page_width,
        Append(row, ScaledImageInfo(image, RDiv(size.h, R(image.height)))),
        RAdd(row_width, RAdd(size.w, self.args.xspace)),
        Some(first), clamped \/ brk)

get_row_step_(self, page_width, row, row_width, clamped, image, first, pref, brk) ==
    IF brk /\ row # <<>>
    THEN get_row_break_(self, page_width, row, row_width, clamped, image,
             IF self.args.scale
             THEN ScaleRow(row, row_scale_(self, row_width, page_width, row))
             ELSE row)
    ELSE get_row_add_(self, page_width, row, row_width, clamped, image, first,
             IF ~brk THEN pref
             ELSE clamp_size_(self, page_width, image.width, image.height,
                              RDiv(RMul(R(image.height), page_width), R(image.width))),
             brk)

(* A ZeroDivisionError leaves _get_row: the image popped at line 110 and   *)
(* the images of the local row are no longer on the queue.                 *)
get_row_raise_(self) ==
    [self |-> [self EXCEPT !.images = Front(@)], ret |-> None, err |-> TRUE]

(* Lines 126-127: aspect/last_aspect is evaluated when the image is no     *)
(* pano and fits, and divides by zero when the row's first image has       *)
(* width 0.                                                                *)
get_row_test_(self, page_width, row, row_width, clamped, image, first, pref) ==
    LET is_pano == RGe(R(image.width), RMul(self.args.pano_threshold, R(image.height)))
        wide == RGt(RAdd(row_width, pref.w), page_width)
    IN  IF ~is_pano /\ ~wide /\ first.width = 0
        THEN get_row_raise_(self)
        ELSE get_row_step_(self, page_width, row, row_width, clamped, image, first, pref,
                 \/ is_pano
                 \/ wide
                 \/ /\ RLt(RDiv(Norm(image.width, image.height), Aspect(first)),
                           AspectBreak)
                    /\ ~self.args.mix_aspect)

(* Line 118: float(image.width)/image.height divides by zero for an image  *)
(* of height 0, before anything else is computed from it.                  *)
get_row_image_(self, page_width, row, row_width, clamped, image, first) ==
    IF image.height = 0 THEN get_row_raise_(self)
    ELSE get_row_test_(self, page_width, row, row_width, clamped, image, first,
                       preferred_size_(self, image.width, image.height, first))

(* The while loop of _get_row; first_image is None or Some(image).         *)
get_row_loop(self, page_width, row, row_width, first_image, clamped) ==
    IF self.images = <<>>
    THEN IF row # <<>>
         THEN get_row_leftover_(self, page_width, row, row_width, clamped,
                                row_scale_(self, row_width, page_width, row))
         ELSE [self |-> self, ret |-> None, err |-> FALSE]
    ELSE get_row_image_(self, page_width, row, row_width, clamped, Last(self.images),
                        IF first_image = None THEN Last(self.images) ELSE first_image[1])

PB_get_row(self, page_width) ==
    get_row_loop(self, page_width, <<>>, R(0), None, FALSE)

(* An unget that appends the row's images first to last.                   *)
unget_all_row_forward(self, row) ==
    [self EXCEPT !.images = @ \o [k \in 1..Len(row) |-> row[k].image]]

RECURSIVE unget_all_row_(_, _)
unget_all_row_(self, row) ==
    \* for i in reversed(row): self.images.append(i.image)
    IF row = <<>> THEN self
    ELSE unget_all_row_([self EXCEPT !.images = Append(@, Last(row).image)], Front(row))

(* An unget that puts the row back twice.                                  *)
PB_unget_row_twice(self, row) == unget_all_row_(unget_all_row_(self, row), row)

(* An unget that loses the row instead of putting it back.                 *)
PB_unget_row_lost(self, row) == self

PB_unget_row(self, row) == unget_all_row_(self, row)

(* _calc_y_position: the (y, yspace) pair.                                 *)
CarriedShare == << 33, 50 >>        \* the 0.66 of line 61

calc_y_position_(self, rows, first) ==
    LET a == self.args
        current_page_height == page_height_(self, rows)
        spread == a.yspread /\ Len(rows) > 1 /\ RGt(self.page_height, current_page_height)
        yspace == IF spread
                  THEN RAdd(a.yspace, RDiv(RSub(self.page_height, current_page_height),
                                           R(Len(rows) - 1)))
                  ELSE a.yspace
        head == page_height_(self, SubSeq(rows, 1, 1))
        y == IF spread \/ ~a.ycenter THEN a.top
             ELSE IF a.overfill
                  THEN IF first THEN a.top
                       ELSE IF RGt(self.page_height, current_page_height)
                            THEN RSub(a.top, RAdd(RMul(head, CarriedShare), a.yspace))
                            ELSE RSub(RAdd(a.top,
                                        RDiv(RSub(self.page_height,
                                                  page_height_(self, SubSeq(rows, 2, Len(rows) - 1))),
                                             R(2))),
                                      RAdd(head, a.yspace))
                  ELSE RAdd(a.top, RDiv(RSub(self.page_height, current_page_height), R(2)))
    IN  [y |-> y, yspace |-> yspace]

Placement(img, x, y) == [image |-> img.image, scale |-> img.scale, x |-> x, y |-> y]

RECURSIVE place_row_(_, _, _, _)
place_row_(row, x, xspace, y) ==
    IF row = <<>> THEN <<>>
    ELSE << Placement(row[1], x, y) >>
         \o place_row_(Tail(row), RAdd(x, RAdd(ImgW(row[1]), xspace)), xspace, y)

(* A placement that starts every mirrored row at the margin.               *)
RECURSIVE place_rows_left(_, _, _, _, _, _)
place_rows_left(self, page_width, rows, pageno, y, yspace) ==
    IF rows = <<>> THEN <<>>
    ELSE LET a == self.args
             row == rows[1]
             row_width == row_width_(self, row)
             x0 == IF a.mirror /\ pageno % 2 = 0 THEN a.right ELSE a.left
             xspread == a.xspread /\ Len(row) > 1
             xspace == IF xspread
                       THEN RAdd(a.xspace, RDiv(RSub(page_width, row_width), R(Len(row) - 1)))
                       ELSE a.xspace
             x == IF xspread THEN x0
                  ELSE IF a.xcenter THEN RAdd(x0, RDiv(RSub(page_width, row_width), R(2)))
                  ELSE x0
         IN  << place_row_(row, x, xspace, y) >>
             \o place_rows_left(self, page_width, Tail(rows), pageno,
                            RAdd(y, RAdd(ImgH(row[1]), yspace)), yspace)

RECURSIVE place_rows_(_, _, _, _, _, _)
place_rows_(self, page_width, rows, pageno, y, yspace) ==
    IF rows = <<>> THEN <<>>
    ELSE LET a == self.args
             row == rows[1]
             row_width == row_width_(self, row)
             x0 == IF a.mirror /\ pageno % 2 = 0 THEN a.right ELSE a.left
             xspread == a.xspread /\ Len(row) > 1
             xspace == IF xspread
                       THEN RAdd(a.xspace, RDiv(RSub(page_width, row_width), R(Len(row) - 1)))
                       ELSE a.xspace
             x == IF xspread THEN x0
                  ELSE IF a.xcenter THEN RAdd(x0, RDiv(RSub(page_width, row_width), R(2)))
                  ELSE IF a.mirror /\ pageno % 2 = 1
                       THEN RAdd(x0, RSub(page_width, row_width))
                  ELSE x0
         IN  << place_row_(row, x, xspace, y) >>
             \o place_rows_(self, page_width, Tail(rows), pageno,
                            RAdd(y, RAdd(ImgH(row[1]), yspace)), yspace)

(* _unget_row: SmartPageBuilder overrides it to push the row on next_row.  *)
Smart_unget_row(self, row) == [self EXCEPT !.next_row = Append(@, row)]

unget_row_(self, row) ==
    IF self.args.smart THEN Smart_unget_row(self, row) ELSE PB_unget_row(self, row)

(* PageBuilder._generate_page.  The page is kept row by row (the source's  *)
(* flat list is the concatenation of the rows).  rows[-2] of a one-row     *)
(* list raises IndexError after rows[-1] has been un-got: err.             *)
(* Lines 75-92: the rows placed from pos, the (y, yspace) pair.            *)
place_page_(self, page_width, rows, pageno, pos) ==
    place_rows_(self, page_width, rows, pageno, pos.y, pos.yspace)

(* Lines 72-74: the last two rows are un-got when over.                    *)
unget_over_(self, rows, over) ==
    IF ~over THEN self
    ELSE IF Len(rows) < 2 THEN unget_row_(self, rows[Len(rows)])
    ELSE unget_row_(unget_row_(self, rows[Len(rows)]), rows[Len(rows) - 1])

generate_page_ret_(self, page_width, rows, pageno, first, over) ==
    [self |-> unget_over_(self, rows, over),
     err |-> over /\ Len(rows) < 2,
     ret |-> IF over /\ Len(rows) < 2 THEN None
             ELSE Some(place_page_(self, page_width, rows, pageno,
                                   calc_y_position_(self, rows, first)))]

PB_generate_page(self, page_width, rows, pageno, first, last) ==
    generate_page_ret_(self, page_width, rows, pageno, first,
        self.args.overfill /\ RGt(page_height_(self, rows), self.page_height))

----------------------------------------------------------------------------
(* list.sort / sorted with a key: stable, on <<key, element>> pairs.       *)

RECURSIVE InsertAsc(_, _)
InsertAsc(sorted, p) ==
    IF sorted = <<>> THEN << p >>
    ELSE IF RGt(sorted[1][1], p[1]) THEN << p >> \o sorted
    ELSE << sorted[1] >> \o InsertAsc(Tail(sorted), p)

(* A descending insertion that puts an element before those of equal key.  *)
RECURSIVE InsertDesc_late(_, _)
InsertDesc_late(sorted, p) ==
    IF sorted = <<>> THEN << p >>
    ELSE IF RLe(sorted[1][1], p[1]) THEN << p >> \o sorted
    ELSE << sorted[1] >> \o InsertDesc_late(Tail(sorted), p)

RECURSIVE InsertDesc(_, _)
InsertDesc(sorted, p) ==
    IF sorted = <<>> THEN << p >>
    ELSE IF RLt(sorted[1][1], p[1]) THEN << p >> \o sorted
    ELSE << sorted[1] >> \o InsertDesc(Tail(sorted), p)

RECURSIVE SortPairs(_, _, _)
SortPairs(pairs, reverse, acc) ==
    IF pairs = <<>> THEN acc
    ELSE SortPairs(Tail(pairs), reverse,
                   IF reverse THEN InsertDesc(acc, pairs[1]) ELSE InsertAsc(acc, pairs[1]))

Seconds(pairs) == [k \in 1..Len(pairs) |-> pairs[k][2]]

----------------------------------------------------------------------------
(* class SmartPageBuilder                                                  *)

fuzzy_sort_coarse(image, pano_threshold) ==
    IF RGt(R(image.width), RMul(R(image.height), pano_threshold)) THEN R(2)
    ELSE IF image.width > image.height THEN R(1)
    ELSE IF image.width < image.height THEN R(-1)
    ELSE R(0)

(* round() of a positive quotient: halves go away from zero.               *)
fuzzy_sort_fine(image) ==
    R((2 * image.width + image.height) \div (2 * image.height))

SmartKey(args, image) ==
    IF args.fuzzy = "coarse" THEN fuzzy_sort_coarse(image, args.pano_threshold)
    ELSE IF args.fuzzy = "fine" THEN fuzzy_sort_fine(image)
    ELSE Aspect(image)

SmartPageBuilder_init(args, images) ==
    PageBuilder_init(args,
        Seconds(SortPairs([k \in 1..Len(images) |-> << SmartKey(args, images[k]), images[k] >>],
                          TRUE, <<>>)))

(* The rows of one page in the "more pleasing order" plus the base class's *)
(* _generate_page.  Popping a carried row from an empty list raises.       *)
RECURSIVE Interleave(_, _)
Interleave(rows, new_rows) ==
    IF rows = <<>> THEN new_rows
    ELSE Interleave(Tail(rows),
                    IF Len(new_rows) % 2 = 1 THEN Append(new_rows, rows[1])
                    ELSE << rows[1] >> \o new_rows)

(* Line 285: rows.sort(key=self._row_width, reverse=True).                 *)
Smart_sort_widths_(self, rest) ==
    Seconds(SortPairs([k \in 1..Len(rest) |-> << row_width_(self, rest[k]), rest[k] >>],
                      TRUE, <<>>))

(* Lines 287-298: a narrow last row stays last, the other rows go          *)
(* alternately to the end and to the start.                                *)
Smart_arrange_(sorted, hold) ==
    IF hold THEN Append(Interleave(Front(sorted), <<>>), Last(sorted))
    ELSE Interleave(sorted, <<>>)

Smart_reorder_(self, page_width, last, sorted) ==
    Smart_arrange_(sorted,
        /\ last
        /\ Len(sorted) > 0
        /\ RLt(row_width_(self, Last(sorted)), RMul(page_width, LastRowCutoff)))

(* SmartPageBuilder._generate_page up to its last line: the rows that line *)
(* 299 hands to PageBuilder._generate_page, or err when rows[1] of a       *)
(* one-row list raises IndexError (line 283).                              *)
Smart_generate_page(self, page_width, rows, first, last) ==
    IF self.args.scale THEN [err |-> FALSE, rows |-> rows]
    ELSE IF self.args.overfill /\ ~first
    THEN IF Len(rows) < 2 THEN [err |-> TRUE, rows |-> rows]
         ELSE [err |-> FALSE,
               rows |-> SubSeq(rows, 1, 2)
                        \o Smart_reorder_(self, page_width, last,
                               Smart_sort_widths_(self, SubSeq(rows, 3, Len(rows))))]
    ELSE [err |-> FALSE,
          rows |-> Smart_reorder_(self, page_width, last, Smart_sort_widths_(self, rows))]

(* _generate_page of the builder's class; o is what the override prepared. *)
generate_page_super_(self, page_width, o, pageno, first, last) ==
    IF o.err THEN [self |-> self, err |-> TRUE, ret |-> None]
    ELSE PB_generate_page(self, page_width, o.rows, pageno, first, last)

generate_page_(self, page_width, rows, pageno, first, last) ==
    generate_page_super_(self, page_width,
        IF self.args.smart THEN Smart_generate_page(self, page_width, rows, first, last)
        ELSE [err |-> FALSE, rows |-> rows],
        pageno, first, last)

(* SmartPageBuilder._get_row: the first call for a width packs every row   *)
(* (lines 313-318); r is what PageBuilder._get_row returned.               *)
RECURSIVE fill_all_rows_(_, _, _)
fill_next_(r, page_width, all_rows) ==
    IF r.ret = None THEN [self |-> r.self, all_rows |-> all_rows, err |-> r.err]
    ELSE fill_all_rows_(r.self, page_width, Append(all_rows, r.ret[1]))

fill_all_rows_(self, page_width, all_rows) ==
    fill_next_(PB_get_row(self, page_width), page_width, all_rows)

(* Lines 319-320: a narrow last row is held back.                          *)
Smart_hold_(self, page_width, all_rows) ==
    /\ all_rows # <<>>
    /\ RLt(row_width_(self, Last(all_rows)), RMul(page_width, LastRowCutoff))

(* Line 321: all_rows.sort(key=the height of the row), ascending.          *)
Smart_sort_rows_(kept) ==
    Seconds(SortPairs([k \in 1..Len(kept) |-> << ImgH(kept[k][1]), kept[k] >>],
                      FALSE, <<>>))

Smart_buffer_(self, all_rows, hold) ==
    [self EXCEPT !.all_rows = Some(Smart_sort_rows_(IF hold THEN Front(all_rows)
                                                    ELSE all_rows)),
                 !.last_row = IF hold THEN Some(Last(all_rows)) ELSE @]

Smart_fill_(f, page_width) ==
    Smart_buffer_(f.self, f.all_rows, Smart_hold_(f.self, page_width, f.all_rows))

(* Lines 324-338: the un-got row first, then the buffered rows from the    *)
(* end, the start and the middle in turn, then the held-back last row.     *)
Smart_pick_(s, rows) ==
    IF s.next_row # <<>>
    THEN [self |-> [s EXCEPT !.next_row = Front(@)], ret |-> Some(Last(s.next_row)),
          err |-> FALSE]
    ELSE IF rows = <<>>
    THEN [self |-> [s EXCEPT !.last_row = None], ret |-> s.last_row, err |-> FALSE]
    ELSE IF s.mode = 0
    THEN [self |-> [s EXCEPT !.mode = 1, !.all_rows = Some(Front(rows))],
          ret |-> Some(Last(rows)), err |-> FALSE]
    ELSE IF s.mode = 1
    THEN [self |-> [s EXCEPT !.mode = 2, !.all_rows = Some(Tail(rows))],
          ret |-> Some(rows[1]), err |-> FALSE]
    ELSE [self |-> [s EXCEPT !.mode = 0,
                             !.all_rows = Some(RemoveAt(rows, (Len(rows) \div 2) + 1))],
          ret |-> Some(rows[(Len(rows) \div 2) + 1]), err |-> FALSE]

Smart_pop_(s) == Smart_pick_(s, s.all_rows[1])

(* f is what the loop of lines 314-318 left: an exception of               *)
(* PageBuilder._get_row leaves all_rows with the rows packed so far.       *)
Smart_filled_(f, page_width) ==
    IF f.err
    THEN [self |-> [f.self EXCEPT !.all_rows = Some(f.all_rows)], ret |-> None,
          err |-> TRUE]
    ELSE Smart_pop_(Smart_fill_(f, page_width))

Smart_get_row(self, page_width) ==
    IF self.all_rows = None
    THEN Smart_filled_(fill_all_rows_(self, page_width, <<>>), page_width)
    ELSE Smart_pop_(self)

get_row_(self, page_width) ==
    IF self.args.smart THEN Smart_get_row(self, page_width) ELSE PB_get_row(self, page_width)

----------------------------------------------------------------------------
(* next_page                                                               *)

(* An overflow test that also turns away a row that fits exactly.          *)
overflows_exact(self, page_rows, row_height, height) ==
    page_rows # <<>> /\ RGe(RAdd(row_height, height), self.page_height)

(* Line 181: the row does not fit under the rows already on the page.      *)
overflows_(self, page_rows, row_height, height) ==
    page_rows # <<>> /\ RGt(RAdd(row_height, height), self.page_height)

(* The while loop of PageBuilder.next_page, lines 175-189; r is what       *)
(* _get_row returned.  over tells that the loop was left with an           *)
(* overflowing row appended (overfill), back is the row that line 185      *)
(* un-got, if any.                                                         *)
RECURSIVE next_page_loop_(_, _, _, _, _)
next_page_step_(self, r, page_width, first, height, page_rows) ==
    LET next_row == r.ret[1]
        row_height == ImgH(next_row[1])
        counted == page_rows # <<>> \/ ~self.args.overfill \/ first
    IN  IF r.ret = None
        THEN [self |-> r.self, height |-> height, page_rows |-> page_rows,
              last |-> ~r.err, over |-> FALSE, back |-> None, err |-> r.err]
        ELSE IF overflows_(self, page_rows, row_height, height)
        THEN IF self.args.overfill
             THEN [self |-> r.self, height |-> height,
                   page_rows |-> Append(page_rows, next_row), last |-> FALSE, over |-> TRUE,
                   back |-> None, err |-> FALSE]
             ELSE [self |-> unget_row_(r.self, next_row), height |-> height,
                   page_rows |-> page_rows, last |-> FALSE, over |-> FALSE,
                   back |-> Some(next_row), err |-> FALSE]
        ELSE next_page_loop_(r.self, page_width, first,
                 IF counted THEN RAdd(height, RAdd(row_height, self.args.yspace)) ELSE height,
                 Append(page_rows, next_row))

next_page_loop_(self, page_width, first, height, page_rows) ==
    next_page_step_(self, get_row_(self, page_width), page_width, first, height, page_rows)

(* A returned page: the placements row by row, and for the properties the  *)
(* rows as next_page collected them, the counted height, last, over and    *)
(* back.                                                                   *)
(* l is what the loop left, p what _generate_page returned.                *)
next_page_ret_(self, l, p) ==
    [self |-> p.self, err |-> p.err,
     ret |-> IF p.err THEN None
             ELSE Some([page |-> p.ret[1], rows |-> l.page_rows,
                        height |-> RSub(l.height, self.args.yspace),
                        last |-> l.last, over |-> l.over, back |-> l.back])]

(* Lines 190-194: if height: return self._generate_page(...); an          *)
(* exception of _get_row (line 176) leaves next_page.                      *)
next_page_end_(self, l, page_width, pageno, first) ==
    IF l.err THEN [self |-> l.self, err |-> TRUE, ret |-> None]
    ELSE IF l.height # R(0)
    THEN next_page_ret_(self, l,
             generate_page_(l.self, page_width, l.page_rows, pageno, first, l.last))
    ELSE [self |-> l.self, err |-> FALSE, ret |-> None]

PB_next_page(self, page_width, pageno, first) ==
    next_page_end_(self, next_page_loop_(self, page_width, first, R(0), <<>>),
                   page_width, pageno, first)

RECURSIVE unget_all_rows_(_, _)
unget_all_rows_(self, rows) ==
    IF rows = <<>> THEN self
    ELSE unget_all_rows_(unget_all_row_(self, rows[1]), Tail(rows))

(* Lines 344-354 of SmartPageBuilder.next_page: with a new page width the  *)
(* buffered rows go back on the queue.  The builder at line 355.           *)
Smart_rewind_(self) ==
    unget_all_rows_(
        IF self.last_row # None
        THEN unget_all_row_(IF self.all_rows # None
                            THEN unget_all_rows_(self, self.all_rows[1]) ELSE self,
                            self.last_row[1])
        ELSE IF self.all_rows # None THEN unget_all_rows_(self, self.all_rows[1]) ELSE self,
        self.next_row)

Smart_reset_(s) == [s EXCEPT !.all_rows = None, !.last_row = None, !.next_row = <<>>]

Smart_next_page(self, page_width) ==
    IF page_width # self.last_width
    THEN [Smart_reset_(Smart_rewind_(self)) EXCEPT !.last_width = page_width]
    ELSE self

(* next_page of the builder's class: line 355 is super().next_page.        *)
next_page_(self, page_width, pageno, first) ==
    PB_next_page(IF self.args.smart THEN Smart_next_page(self, page_width) ELSE self,
                 page_width, pageno, first)

----------------------------------------------------------------------------
(* get_pages: a generator.  Its frame is [self, pagenos, i, first, done,   *)
(* err]; one pass of the while loop either populates and yields a page,    *)
(* or skips the page number(s), or breaks.                                 *)

make_builder(args, images) ==
    IF args.smart THEN SmartPageBuilder_init(args, images)
    ELSE PageBuilder_init(args, IF args.reverse THEN Reverse(images) ELSE images)

get_pages_(self, pagenos) ==
    [self |-> self, pagenos |-> pagenos, i |-> 0, first |-> TRUE,
     done |-> FALSE, err |-> FALSE]

(* Lines 216-225 of a pass: p is what next_page returned.                  *)
(* A yield that leaves the page numbers it has used on the list.          *)
get_pages_yield_kept(g, p, pageno, double, i2, page_width) ==
    IF p.err
    THEN [g |-> [g EXCEPT !.self = p.self, !.i = i2, !.first = FALSE,
                          !.err = TRUE, !.done = TRUE],
          yield |-> None]
    ELSE IF p.ret = None
    THEN [g |-> [g EXCEPT !.self = p.self, !.i = i2, !.first = FALSE, !.done = TRUE],
          yield |-> None]
    ELSE [g |-> [g EXCEPT !.self = p.self, !.i = i2, !.first = FALSE],
          yield |-> Some([populated |-> p.ret[1], pageno |-> pageno, double |-> double,
                          page_width |-> page_width, first |-> g.first])]

get_pages_yield_(g, p, pageno, double, i2, page_width) ==
    IF p.err
    THEN [g |-> [g EXCEPT !.self = p.self, !.i = i2, !.first = FALSE,
                          !.err = TRUE, !.done = TRUE],
          yield |-> None]
    ELSE IF p.ret = None
    THEN [g |-> [g EXCEPT !.self = p.self, !.i = i2, !.first = FALSE, !.done = TRUE],
          yield |-> None]
    ELSE [g |-> [g EXCEPT !.self = p.self, !.i = 0, !.first = FALSE,
                          !.pagenos = SubSeq(@, i2 + 1, Len(@))],
          yield |-> Some([populated |-> p.ret[1], pageno |-> pageno, double |-> double,
                          page_width |-> page_width, first |-> g.first])]

(* A pass that takes only the left-hand number of a spread off the list.   *)
get_pages_populate_left(g, pageno, double, i2, page_width) ==
    get_pages_yield_(g, next_page_(g.self, page_width, pageno, g.first),
                     pageno, double, g.i + 1, page_width)

get_pages_populate_(g, pageno, double, i2, page_width) ==
    get_pages_yield_(g, next_page_(g.self, page_width, pageno, g.first),
                     pageno, double, i2, page_width)

(* A pass that merges two adjacent page numbers whatever their parity.     *)
get_pages_pass_any(g) ==
    LET a == g.self.args
        pageno == g.pagenos[g.i + 1]
        i1 == g.i + 1
        double == /\ a.double
                  /\ i1 < Len(g.pagenos)
                  /\ g.pagenos[i1 + 1] = pageno + 1
        i2 == IF double THEN i1 + 1 ELSE i1
        page_width ==
            IF double
            THEN IF a.mirror THEN RMul(RSub(a.page_width, a.right), R(2))
                 ELSE RSub(RMul(a.page_width, R(2)), RAdd(a.left, a.right))
            ELSE RSub(a.page_width, RAdd(a.left, a.right))
        populate == /\ double \/ ~a.double_only
                    /\ \/ pageno % 2 = 0 /\ a.even_only
                       \/ pageno % 2 = 1 /\ a.odd_only
                       \/ ~(a.odd_only \/ a.even_only)
    IN  IF ~populate
        THEN [g |-> [g EXCEPT !.i = i2], yield |-> None]
        ELSE get_pages_populate_(g, pageno, double, i2, page_width)

get_pages_pass(g) ==
    LET a == g.self.args
        pageno == g.pagenos[g.i + 1]
        i1 == g.i + 1
        double == /\ a.double
                  /\ pageno % 2 = 0
                  /\ i1 < Len(g.pagenos)
                  /\ g.pagenos[i1 + 1] = pageno + 1
        i2 == IF double THEN i1 + 1 ELSE i1
        page_width ==
            IF double
            THEN IF a.mirror THEN RMul(RSub(a.page_width, a.right), R(2))
                 ELSE RSub(RMul(a.page_width, R(2)), RAdd(a.left, a.right))
            ELSE RSub(a.page_width, RAdd(a.left, a.right))
        populate == /\ double \/ ~a.double_only
                    /\ \/ pageno % 2 = 0 /\ a.even_only
                       \/ pageno % 2 = 1 /\ a.odd_only
                       \/ ~(a.odd_only \/ a.even_only)
    IN  IF ~populate
        THEN [g |-> [g EXCEPT !.i = i2], yield |-> None]
        ELSE get_pages_populate_(g, pageno, double, i2, page_width)

(* get_page_count: sum(1 for _ in pages) over a copy of pagenos, and the   *)
(* builder's incomplete flag afterwards.                                   *)
RECURSIVE count_pages_(_, _)
count_pages_next_(r, n) == count_pages_(r.g, IF r.yield = None THEN n ELSE n + 1)

count_pages_(g, n) ==
    IF g.done \/ g.i >= Len(g.pagenos)
    THEN [count |-> n, incomplete |-> g.self.incomplete, err |-> g.err,
          pagenos |-> g.pagenos]
    ELSE count_pages_next_(get_pages_pass(g), n)

(* A get_page_count that drains the caller's list instead of a copy.       *)
get_page_count_shared(self, pagenos) == count_pages_(get_pages_(self, pagenos), 0)

(* Line 231: get_pages is given pagenos[:], so the list it deletes from is *)
(* not the caller's: pagenos of the result is the caller's list after the  *)
(* call.                                                                   *)
get_page_count(self, pagenos) ==
    [count_pages_(get_pages_(self, pagenos), 0) EXCEPT !.pagenos = pagenos]

----------------------------------------------------------------------------
(* The program state.                                                      *)
(*   args, images, pagenos: what populate_section passes on: the options   *)
(*     (argparse.Namespace), the image list, the destination page list;    *)
(*   g: the frame of the get_pages generator being drained (its builder    *)
(*     is g.self); pagenos is the same list object as g.pagenos;           *)
(*   pages: the (populated, pageno, double) tuples yielded so far;         *)
(*   ret: what the last direct call of _get_row returned;                  *)
(*   trip: the page width of that call and the builder as it left it,      *)
(*     kept for the caller that hands the row back and asks again;         *)
(*   pc: the position of the caller.                                       *)
(*   count, page_count, incomplete, best_height, perfect_height: the       *)
(*     parameter and the locals of populate_single_page;                   *)
(*   probes: every (height, seed, page count, incomplete) that _try_it has *)
(*     measured, and whether the fine loop measured it.                    *)
(*   dest: the destination page list as the caller built it, before any    *)
(*     page number was taken off it;                                       *)
(*   sections: the image lists of the sections populate_sections has still *)
(*     to populate, in the order of args.sections;                         *)
(*   doc: the document: for each section populated so far, the pages that  *)
(*     update_blurb wrote for it.                                          *)
VARIABLES args, images, pagenos, g, pages, ret, trip, pc,
          count, page_count, incomplete, best_height, perfect_height, probes,
          dest, sections, doc

optvars == << count, page_count, incomplete, best_height, perfect_height, probes >>

bookvars == << dest, sections, doc >>

vars == << args, images, pagenos, g, pages, ret, trip, pc, optvars, bookvars >>

(* A run of one populate_section call: no sections, an empty document.     *)
NoBook ==
    /\ dest = pagenos
    /\ sections = <<>>
    /\ doc = <<>>

(* The optimizer's variables where populate_single_page is not running.    *)
NoOptimizer ==
    /\ count = 0
    /\ page_count = 0
    /\ incomplete = FALSE
    /\ best_height = R(0)
    /\ perfect_height = R(0)
    /\ probes = {}

(* parse_args: the options with their types; numbers are rationals.        *)
BaseArgs ==
    [page_width |-> R(600), page_height |-> R(400),
     top |-> R(0), bottom |-> R(0), left |-> R(0), right |-> R(0),
     xspace |-> R(0), yspace |-> R(0), image_height |-> R(200),
     pano_threshold |-> R(3),
     mirror |-> FALSE, smart |-> FALSE, ycenter |-> FALSE, xcenter |-> FALSE,
     xspread |-> FALSE, yspread |-> FALSE, scale |-> FALSE, double |-> FALSE,
     double_only |-> FALSE, odd_only |-> FALSE, even_only |-> FALSE,
     overfill |-> FALSE, mix_aspect |-> FALSE,
     fuzzy |-> "off", reverse |-> FALSE, random |-> 0]

(* Image lists: every sequence of 1..n pictures of a catalog of            *)
(* <<width, height>> pairs; an image's name is its place in the list.      *)
MaxImages == 3

ImageLists(catalog, n) ==
    UNION { { [k \in 1..m |-> ImageInfo(k, catalog[f[k]][1], catalog[f[k]][2])] :
              f \in [1..m -> 1..Len(catalog)] } : m \in 1..n }

(* Pictures for whole layouts: square, landscape 9:4, panorama 4:1,        *)
(* portrait 1:2 (aspects >= 1 are squares of rationals, as RSqrt needs).   *)
LayoutCatalog == << << 100, 100 >>, << 225, 100 >>, << 400, 100 >>, << 50, 100 >> >>

LayoutArgs ==
    { [BaseArgs EXCEPT !.overfill = o, !.smart = sm, !.scale = sc, !.double = d] :
      o \in BOOLEAN, sm \in BOOLEAN, sc \in BOOLEAN, d \in BOOLEAN }

Init ==
    /\ args \in LayoutArgs
    /\ images \in ImageLists(LayoutCatalog, MaxImages)
    /\ pagenos \in { << 1, 2, 3, 4 >>, << 2, 3, 4, 5 >> }
    /\ g = get_pages_(make_builder(args, images), pagenos)
    /\ pages = <<>>
    /\ ret = None
    /\ trip = None
    /\ NoBook
    /\ pc = "pages"
    /\ NoOptimizer

(* What a pass r leaves: the generator's frame, the page list it consumes  *)
(* in place, and the page it yielded appended by list().                   *)
Passed(r) ==
    /\ g' = r.g
    /\ pagenos' = r.g.pagenos
    /\ pages' = IF r.yield = None THEN pages ELSE Append(pages, r.yield[1])

(* One pass of get_pages' while loop, driven by list(populate_pages(...)). *)
Pass ==
    /\ pc = "pages"
    /\ ~g.done
    /\ g.i < Len(g.pagenos)
    /\ Passed(get_pages_pass(g))
    /\ UNCHANGED << args, images, bookvars, ret, trip, pc, optvars >>

(* The loop is left (break, or no page number remains): StopIteration; an  *)
(* exception raised by the builder ends the program instead.               *)
Finish ==
    /\ pc = "pages"
    /\ g.done \/ g.i >= Len(g.pagenos)
    /\ pc' = IF g.err THEN "raised" ELSE "done"
    /\ UNCHANGED << args, images, bookvars, pagenos, g, pages, ret, trip, optvars >>

Next == Pass \/ Finish

Spec == Init /\ [][Next]_vars

----------------------------------------------------------------------------
(* Counting images.                                                        *)

RECURSIVE CountRows(_)
CountRows(rows) == IF rows = <<>> THEN 0 ELSE Len(rows[1]) + CountRows(Tail(rows))

RECURSIVE CountPages(_)
CountPages(ps) ==
    IF ps = <<>> THEN 0 ELSE CountRows(ps[1].populated.page) + CountPages(Tail(ps))

(* How often the image called name is placed on the yielded pages.         *)
TimesPlaced(name) ==
    Cardinality({ t \in { << p, r, k >> : p \in 1..Len(pages), r \in 1..Len(images),
                                         k \in 1..Len(images) } :
                    /\ t[2] <= Len(pages[t[1]].populated.page)
                    /\ t[3] <= Len(pages[t[1]].populated.page[t[2]])
                    /\ pages[t[1]].populated.page[t[2]][t[3]].image.name = name })

(* Images the builder still holds: its queue and Smart's row buffers.      *)
Unconsumed(self) ==
    Len(self.images)
    + (IF self.all_rows = None THEN 0 ELSE CountRows(self.all_rows[1]))
    + (IF self.last_row = None THEN 0 ELSE Len(self.last_row[1]))
    + CountRows(self.next_row)

AvailableHeight == g.self.page_height

----------------------------------------------------------------------------
(* C1 (as claimed): under every flag combination each image is placed at   *)
(* most once over the yielded pages, and placed + unconsumed images equal  *)
(* the original image count.                                               *)
C1_Conservation ==
    /\ \A k \in 1..Len(images) : TimesPlaced(k) <= 1
    /\ CountPages(pages) + Unconsumed(g.self) = Len(images)

(* C1 (amended): the same with overfill disabled, for PageBuilder and      *)
(* SmartPageBuilder, at every point of a get_pages run.                    *)
C1_ConservationNoOverfill ==
    ~args.overfill =>
        /\ \A k \in 1..Len(images) : TimesPlaced(k) <= 1
        /\ CountPages(pages) + Unconsumed(g.self) = Len(images)

(* C1 witness: without overfill a page has been yielded while the builder  *)
(* still holds images that an overflowing row gave back.                   *)
C1_Witness ==
    /\ ~args.overfill
    /\ Len(pages) >= 1
    /\ Unconsumed(g.self) > 0
    /\ g.self.got # <<>>
    /\ Len(g.self.got) > Len(pages[1].populated.rows)

----------------------------------------------------------------------------
(* Page heights.  p is an element of pages.                                *)

ContentHeight(p) == page_height_(g.self, p.populated.rows)

(* Row k of the generated page reaches below the available height.         *)
ExtendsPast(p, k) ==
    LET img == p.populated.page[k][1]
    IN  RGt(RAdd(img.y, RMul(R(img.image.height), img.scale)),
            RAdd(args.top, AvailableHeight))

(* C4: without overfill every page's content height is within *)
(* the available height; with overfill only the trailing row of a page     *)
(* extends past the available height.                                      *)
C4_PageHeightBound ==
    \A n \in 1..Len(pages) :
        LET p == pages[n]
        IN  IF ~args.overfill
            THEN RLe(ContentHeight(p), AvailableHeight)
            ELSE \A k \in 1..Len(p.populated.page) :
                     ExtendsPast(p, k) => k = Len(p.populated.page)

(* The images of a row, in order.                                          *)
RowImages(row) == [k \in 1..Len(row) |-> row[k].image.name]

(* The rows 1..k of a page as next_page accepted them are within the       *)
(* available height.                                                       *)
FitsUpTo(p, k) ==
    RLe(page_height_(g.self, SubSeq(p.populated.rows, 1, k)), AvailableHeight)

C14_OverfillCarries ==
    args.overfill =>
       /\ pc # "raised"
       /\ \A n \in 1..Len(pages) :
             LET p == pages[n]
                 rows == p.populated.rows
                 m == Len(rows)
             IN  p.populated.over =>
                    /\ m >= 2
                    /\ RGt(page_height_(g.self, rows), AvailableHeight)
                    /\ n < Len(pages) =>
                          LET nx == pages[n + 1].populated.rows
                          IN  /\ Len(nx) >= 2
                              /\ RowImages(nx[1]) = RowImages(rows[m - 1])
                              /\ RowImages(nx[2]) = RowImages(rows[m])

----------------------------------------------------------------------------
(* SpecRow: PageBuilder._get_row called row after row on a fresh builder,  *)
(* with the single or the double page width, as get_pages passes them.     *)

(* Pictures for rows: 3:2, square, panorama 5:1, portrait 1:2.             *)
RowCatalog == << << 150, 100 >>, << 100, 100 >>, << 500, 100 >>, << 50, 100 >> >>

RowArgs ==
    { [BaseArgs EXCEPT !.scale = sc, !.mix_aspect = m, !.xspace = R(xs),
                       !.page_height = R(ph)] :
      sc \in BOOLEAN, m \in BOOLEAN, xs \in {0, 10}, ph \in {400, 100} }

RowWidths(a) ==
    { RSub(a.page_width, RAdd(a.left, a.right)),
      RSub(RMul(a.page_width, R(2)), RAdd(a.left, a.right)) }

InitRow ==
    /\ args \in RowArgs
    /\ images \in ImageLists(RowCatalog, MaxImages)
    /\ pagenos = <<>>
    /\ g = get_pages_(make_builder(args, images), pagenos)
    /\ pages = <<>>
    /\ ret = None
    /\ trip = None
    /\ NoBook
    /\ pc = "rows"
    /\ NoOptimizer

GetRow ==
    /\ pc = "rows"
    /\ \E page_width \in RowWidths(args) :
          LET r == PB_get_row(g.self, page_width)
          IN  /\ g' = [g EXCEPT !.self = r.self]
              /\ ret' = r.ret
              /\ pc' = IF r.err THEN "raised" ELSE "rows"
    /\ UNCHANGED << args, images, bookvars, pagenos, pages, trip, optvars >>

SpecRow == InitRow /\ [][GetRow]_vars

Got == g.self.got

IsPano(image) == RGe(R(image.width), RMul(args.pano_threshold, R(image.height)))

(* The total width of a row: scaled widths and the gaps between them.      *)
TotalWidth(row) == RAdd(SumW(row), RMul(args.xspace, R(Len(row) - 1)))

SingleClamped(e) == Len(e.row) = 1 /\ e.clamped

(* C3: a row that is not the final row of the run nor a single clamped     *)
(* image is at most as wide as the page, before and after the scale-to-    *)
(* fill rescale; a rejected image that is no panorama and within the       *)
(* aspect threshold is one whose preferred width no longer fitted; and     *)
(* aspects [1.5, 1.0, 1.5] at height 200 on width 600 give the rows        *)
(* [300x200, 200x200] and [300x200].                                       *)
C3_RowWidthBound ==
    /\ \A n \in 1..Len(Got) :
          LET e == Got[n]
              j == e.rejected[1]
              first == e.row[1].image
              prefw == PB_preferred_size(g.self, j.width, j.height, first).w
          IN  (e.how = "break" /\ ~SingleClamped(e)) =>
                 /\ RLe(TotalWidth(e.row), e.page_width)
                 /\ RLe(TotalWidth(e.pref), e.page_width)
                 /\ (/\ ~IsPano(j)
                     /\ args.mix_aspect \/ RGe(RDiv(Aspect(j), Aspect(first)), << 33, 50 >>))
                        => RGt(RAdd(RAdd(TotalWidth(e.pref), args.xspace), prefw),
                               e.page_width)
    /\ (/\ [k \in 1..Len(images) |-> << images[k].width, images[k].height >>]
              = << << 150, 100 >>, << 100, 100 >>, << 150, 100 >> >>
        /\ args.xspace = R(0)
        /\ ~args.scale
        /\ Len(Got) = 2
        /\ \A n \in 1..2 : Got[n].page_width = R(600))
           => /\ [k \in 1..2 |-> << ImgW(Got[1].row[k]), ImgH(Got[1].row[k]) >>]
                    = << << R(300), R(200) >>, << R(200), R(200) >> >>
              /\ [k \in 1..1 |-> << ImgW(Got[2].row[k]), ImgH(Got[2].row[k]) >>]
                    = << << R(300), R(200) >> >>

(* C3 witness: scenario A has been packed, and a scale-to-fill row of two  *)
(* images with gaps was closed by an image that no longer fitted.          *)
C3_Witness ==
    \/ /\ [k \in 1..Len(images) |-> << images[k].width, images[k].height >>]
              = << << 150, 100 >>, << 100, 100 >>, << 150, 100 >> >>
       /\ args.xspace = R(0) /\ ~args.scale /\ ~args.mix_aspect
       /\ Len(Got) = 2
       /\ \A n \in 1..2 : Got[n].page_width = R(600)
    \/ /\ Len(Got) >= 1
       /\ Got[1].how = "break" /\ Len(Got[1].row) = 2 /\ args.scale
       /\ args.xspace = R(10) /\ ~IsPano(Got[1].rejected[1])

(* C8: every returned row that contains a panoramic image contains only    *)
(* that image.                                                             *)
C8_PanoAlone ==
    \A n \in 1..Len(Got) :
       \A k \in 1..Len(Got[n].row) :
          IsPano(Got[n].row[k].image) => Len(Got[n].row) = 1

(* C9: with scale-to-fill, a row closed by a rejected image is its         *)
(* preferred row rescaled by one factor, and its total width is the        *)
(* available page width; two images of combined width 500 on width 600     *)
(* without spacing get factor 6/5.                                         *)
C9_ScaleToFillExact ==
    \A n \in 1..Len(Got) :
       LET e == Got[n]
           f == RDiv(e.row[1].scale, e.pref[1].scale)
       IN  (args.scale /\ e.how = "break") =>
              /\ \A k \in 1..Len(e.row) :
                    e.row[k].scale = RMul(e.pref[k].scale, f)
              /\ TotalWidth(e.row) = e.page_width
              /\ (/\ Len(e.row) = 2
                  /\ SumW(e.pref) = R(500)
                  /\ e.page_width = R(600)
                  /\ args.xspace = R(0)) => f = << 6, 5 >>

(* C10 as stated: the row returned when the queue runs out is rescaled by  *)
(* the fill scale only if scale-to-fill is requested and that scale is at  *)
(* most 1.2; otherwise it keeps its preferred scale and incomplete is set. *)
C10_LeftoverOnlyWithScale ==
    \A n \in 1..Len(Got) :
       LET e == Got[n]
           need == RDiv(RSub(e.page_width, RMul(args.xspace, R(Len(e.pref)))),
                        SumW(e.pref))
       IN  e.how = "end" =>
              IF args.scale /\ RLe(need, << 6, 5 >>)
                THEN e.row = ScaleRow(e.pref, need)
                ELSE e.row = e.pref /\ e.incomplete

(* C10 amended: the row returned when the queue runs out is rescaled by    *)
(* the fill scale, and incomplete cleared, whenever that scale is at most  *)
(* 1.2, whether or not scale-to-fill is requested; above 1.2 the images    *)
(* keep their preferred scale and incomplete is set.                       *)
C10_LeftoverRow ==
    \A n \in 1..Len(Got) :
       LET e == Got[n]
           need == RDiv(RSub(e.page_width, RMul(args.xspace, R(Len(e.pref)))),
                        SumW(e.pref))
       IN  e.how = "end" =>
              IF RLe(need, << 6, 5 >>)
                THEN e.row = ScaleRow(e.pref, need) /\ ~e.incomplete
                ELSE e.row = e.pref /\ e.incomplete

(* C10 witness: without scale-to-fill, one leftover row needing at most    *)
(* 1.2 was rescaled and another needing more was left as it was.           *)
C10_Witness ==
    /\ ~args.scale
    /\ Len(Got) >= 1
    /\ LET e == Got[Len(Got)]
       IN  /\ e.how = "end"
           /\ \/ e.row # e.pref /\ ~e.incomplete /\ Len(e.row) = 2
              \/ e.row = e.pref /\ e.incomplete /\ Len(e.row) = 2
                  /\ g.self.images = <<>>

(* C11: a row whose first image went through the too-wide/pano branch on   *)
(* an empty row is returned with that image alone, at most as wide as the  *)
(* available page width and at most as tall as the available page height,  *)
(* with and without scale-to-fill, clamped by width or by height.          *)
C11_ClampedSingleFits ==
    \A n \in 1..Len(Got) :
       LET e == Got[n]
       IN  e.clamped =>
              /\ Len(e.row) = 1
              /\ RLe(ImgW(e.row[1]), e.page_width)
              /\ RLe(ImgH(e.row[1]), AvailableHeight)

----------------------------------------------------------------------------
(* SpecMal: _get_row on image lists with malformed pictures: width 0,      *)
(* height 0, aspect 1:1000, next to a square.                              *)
InitMal ==
    /\ args \in { [BaseArgs EXCEPT !.scale = sc, !.mix_aspect = m] : sc \in BOOLEAN, m \in BOOLEAN }
    /\ images \in ImageLists(<< << 0, 100 >>, << 100, 0 >>, << 1, 1000 >>,
                                << 100, 100 >> >>, MaxImages)
    /\ pagenos = <<>>
    /\ g = get_pages_(make_builder(args, images), pagenos)
    /\ pages = <<>>
    /\ ret = None
    /\ trip = None
    /\ NoBook
    /\ pc = "rows"
    /\ NoOptimizer

SpecMal == InitMal /\ [][GetRow]_vars

Malformed(image) ==
    \/ image.width = 0
    \/ image.height = 0
    \/ image.width * 1000 <= image.height
    \/ image.height * 1000 <= image.width

(* C12: _get_row raises no error on a malformed image (zero width, zero    *)
(* height, extreme aspect ratio): every such image comes back alone in a   *)
(* row that fits the page.                                                 *)
C12_MalformedPlaced ==
    /\ pc # "raised"
    /\ \A n \in 1..Len(Got) :
          \A k \in 1..Len(Got[n].row) :
             Malformed(Got[n].row[k].image) =>
                /\ Len(Got[n].row) = 1
                /\ RLe(ImgW(Got[n].row[k]), Got[n].page_width)
                /\ RLe(ImgH(Got[n].row[k]), AvailableHeight)

----------------------------------------------------------------------------
(* SpecTrip: a caller that takes rows from either builder with _get_row,   *)
(* may hand the row just taken back with _unget_row, and then asks again   *)
(* for the same page width.  trip keeps what the caller saw at the first   *)
(* call: the page width and the builder as the call left it.               *)
InitTrip ==
    /\ args \in { [BaseArgs EXCEPT !.smart = sm, !.scale = sc] : sm \in BOOLEAN, sc \in BOOLEAN }
    /\ images \in ImageLists(RowCatalog, MaxImages)
    /\ pagenos = <<>>
    /\ g = get_pages_(make_builder(args, images), pagenos)
    /\ pages = <<>>
    /\ ret = None
    /\ trip = None
    /\ NoBook
    /\ pc = "rows"
    /\ NoOptimizer

(* row = self._get_row(page_width)                                         *)
TripGet ==
    /\ pc \in {"rows", "again"}
    /\ \E page_width \in RowWidths(args) :
          LET r == get_row_(g.self, page_width)
          IN  /\ g' = [g EXCEPT !.self = r.self]
              /\ ret' = r.ret
              /\ trip' = Some([page_width |-> page_width, self |-> r.self])
              /\ pc' = IF r.err THEN "raised" ELSE "rows"
    /\ UNCHANGED << args, images, bookvars, pagenos, pages, optvars >>

(* self._unget_row(row) on the row just returned                           *)
TripUnget ==
    /\ pc = "rows"
    /\ ret # None
    /\ g' = [g EXCEPT !.self = unget_row_(g.self, ret[1])]
    /\ pc' = "ungot"
    /\ UNCHANGED << args, images, bookvars, pagenos, pages, ret, trip, optvars >>

(* self._get_row(page_width) again; ret still holds the first row          *)
TripGetAgain ==
    /\ pc = "ungot"
    /\ LET r == get_row_(g.self, trip[1].page_width)
       IN  /\ g' = [g EXCEPT !.self = r.self]
           /\ pages' = << r.ret >>
           /\ pc' = IF r.err THEN "raised" ELSE "again"
    /\ UNCHANGED << args, images, bookvars, pagenos, ret, trip, optvars >>

SpecTrip == InitTrip /\ [][TripGet \/ TripUnget \/ TripGetAgain]_vars

(* The images a builder still holds, next to come first: the rows handed   *)
(* back, the buffered rows, the held-out row, the queue.                   *)
RECURSIVE RowsImages(_)
RowsImages(rows) ==
    IF rows = <<>> THEN <<>> ELSE RowImages(rows[1]) \o RowsImages(Tail(rows))

QueueNames(self) == [k \in 1..Len(self.images) |-> self.images[Len(self.images) + 1 - k].name]

(* C15: after _get_row, _unget_row of the row and _get_row for the same    *)
(* page width, the second row has the same images in the same order as the *)
(* first, and the images behind it (the queue, and for SmartPageBuilder    *)
(* the buffered rows and the held-out row) are as the first call left      *)
(* them.                                                                   *)
C15_UngetRoundTrip ==
    /\ (pc = "ungot" /\ ~args.smart) =>
          QueueNames(g.self) = RowImages(ret[1]) \o QueueNames(trip[1].self)
    /\ pc = "again" =>
          /\ pages[1] # None
          /\ RowImages(pages[1][1]) = RowImages(ret[1])
          /\ pages[1] = ret
          /\ QueueNames(g.self) = QueueNames(trip[1].self)
          /\ g.self.all_rows = trip[1].self.all_rows
          /\ g.self.last_row = trip[1].self.last_row
          /\ g.self.next_row = trip[1].self.next_row
          /\ g.self.mode = trip[1].self.mode

C15_Witness ==
    /\ pc = "again"
    /\ Len(ret[1]) = 2
    /\ QueueNames(g.self) # <<>> \/ g.self.all_rows \notin {None, Some(<<>>)}

(* C16: when get_pages calls SmartPageBuilder.next_page with a page width  *)
(* other than the one of the call before, all_rows, last_row and next_row  *)
(* are cleared, every image of their rows is on the queue, and the queue   *)
(* is in the order the constructor sorted the images into.                 *)
C16_WidthChangeRestores ==
    (args.smart /\ pc = "pages" /\ ~g.done /\ g.i < Len(g.pagenos)) =>
       LET y == get_pages_pass(g).yield
           sorted == QueueNames(make_builder(args, images))
           PlaceIn(name) == CHOOSE k \in 1..Len(sorted) : sorted[k] = name
           buffered ==
               RowsImages(IF g.self.all_rows = None THEN <<>> ELSE g.self.all_rows[1])
               \o RowsImages(IF g.self.last_row = None THEN <<>>
                             ELSE << g.self.last_row[1] >>)
               \o RowsImages(g.self.next_row)
       IN  (y # None /\ g.self.last_width # R(0) /\ y[1].page_width # g.self.last_width) =>
              LET s == Smart_next_page(g.self, y[1].page_width)
                  q == QueueNames(s)
              IN  /\ s.all_rows = None
                  /\ s.last_row = None
                  /\ s.next_row = <<>>
                  /\ \A k \in 1..Len(buffered) : \E i \in 1..Len(q) : q[i] = buffered[k]
                  /\ \A i \in 1..Len(q) : \A j \in 1..Len(q) :
                        i < j => PlaceIn(q[i]) < PlaceIn(q[j])

----------------------------------------------------------------------------
(* SpecSort: SmartPageBuilder built on every caller order of up to         *)
(* MaxImages pictures (square, two landscapes, a panorama, a portrait),    *)
(* with and without --reverse and with each --fuzzy choice, then drained   *)
(* with _get_row.                                                          *)
InitSort ==
    /\ args \in { [BaseArgs EXCEPT !.smart = TRUE, !.fuzzy = f, !.reverse = rv] :
                    f \in {"off", "coarse", "fine"}, rv \in BOOLEAN }
    /\ images \in ImageLists(<< << 100, 100 >>, << 144, 100 >>, << 225, 100 >>,
                                << 400, 100 >>, << 50, 100 >> >>, MaxImages)
    /\ pagenos = <<>>
    /\ g = get_pages_(make_builder(args, images), pagenos)
    /\ pages = <<>>
    /\ ret = None
    /\ trip = None
    /\ NoBook
    /\ pc = "rows"
    /\ NoOptimizer

SpecSort == InitSort /\ [][TripGet]_vars

(* The names of the images in the order PageBuilder._get_row took them off *)
(* the queue, followed by those still on it.                               *)
Consumed == RowsImages([n \in 1..Len(Got) |-> Got[n].row]) \o QueueNames(g.self)

(* C17: SmartPageBuilder takes the images in non-increasing order of the   *)
(* sort key (the aspect ratio, or the coarse or fine bucket), whatever the *)
(* caller's order and --reverse, and images of equal key in the caller's   *)
(* order.                                                                  *)
C17_SmartOrder ==
    /\ Len(Consumed) = Len(images)
    /\ \A i \in 1..Len(Consumed) : \A j \in 1..Len(Consumed) :
          i < j =>
             LET ki == SmartKey(args, images[Consumed[i]])
                 kj == SmartKey(args, images[Consumed[j]])
             IN  /\ RGe(ki, kj)
                 /\ ki = kj => Consumed[i] < Consumed[j]

C17_Witness ==
    /\ trip # None
    /\ g.self.images = <<>>
    /\ args.fuzzy = "coarse"
    /\ args.reverse
    /\ Len(images) = 3
    /\ Consumed = << 2, 3, 1 >>
    /\ images[2].width = 144
    /\ images[3].width = 225

(* The row SmartPageBuilder._get_row held out at line 320 the last time it *)
(* filled all_rows: the final row packed, if narrower than 0.75 page       *)
(* widths.                                                                 *)
HeldRow ==
    IF Got # <<>> /\ Smart_hold_(g.self, Last(Got).page_width, << Last(Got).row >>)
    THEN Some(Last(Got).row) ELSE None

(* C18: in smart mode with one page width, a final packed row narrower     *)
(* than 0.75 page widths is handed out by _get_row only after every other  *)
(* packed row, so it is on the last page only, accepted after all other    *)
(* rows and placed below them.                                             *)
C18_HeldRowLast ==
    (args.smart /\ ~args.double /\ HeldRow # None) =>
       \A n \in 1..Len(pages) : \A k \in 1..Len(pages[n].populated.rows) :
          LET p == pages[n].populated
              held == RowImages(HeldRow[1])
              bottom == p.page[Len(p.page)]
          IN  RowImages(p.rows[k]) = held =>
                 /\ n = Len(pages)
                 /\ k = Len(p.rows)
                 /\ \A m \in 1..(Len(Got) - 1) :
                       \E n1 \in 1..n : \E k1 \in 1..Len(pages[n1].populated.rows) :
                          /\ n1 < n \/ k1 < k
                          /\ RowImages(pages[n1].populated.rows[k1]) = RowImages(Got[m].row)
                 /\ [i \in 1..Len(bottom) |-> bottom[i].image.name] = held

----------------------------------------------------------------------------
(* populate_single_page: the optimizer of image_height.                    *)

(* image_height is a float in the source.  Here it is a number on the grid *)
(* of step 1/HUnit between 0 and HCeil, and every arithmetic result is     *)
(* rounded to the nearest grid value and capped, as a float's is to the    *)
(* nearest float: x * 0.99 rounds back to x at the bottom of the grid as   *)
(* it does at the smallest subnormal, and x + 1 and x * 1.01 stay at HCeil *)
(* as they stay at 2^53 and at inf.  From HCeil on, every picture of       *)
(* OptCatalog is in a row of its own on the pages of OptArgs whatever the  *)
(* height, so the page count no longer changes with it.                    *)
HUnit == 100

HCeil == 14

Float(x) ==
    LET k == (2 * x[1] * HUnit + x[2]) \div (2 * x[2])
    IN  Norm(IF k > HCeil * HUnit THEN HCeil * HUnit ELSE k, HUnit)

CoarseDown == << 99, 100 >>      \* 0.99

CoarseUp == << 101, 100 >>       \* 1.01

(* _try_it: a fresh builder's page count over a copy of pagenos.           *)
try_it(a, ims, pns) == get_page_count(make_builder(a, ims), pns)

Probe(a, r, fine) ==
    [image_height |-> a.image_height, random |-> a.random,
     page_count |-> r.count, incomplete |-> r.incomplete, fine |-> fine]

(* MaxOptImages: the longest image list handed to the optimizer.           *)
MaxOptImages == 2

(* Square, portrait 3:10, panorama 4:1.                                    *)
OptCatalog == << << 10, 10 >>, << 3, 10 >>, << 40, 10 >> >>

(* The heights the search starts from: at 4 two rows fill the page of      *)
(* OptArgs exactly, at 5 they no longer fit on it.                         *)
OptArgs ==
    { [BaseArgs EXCEPT !.page_width = R(12), !.page_height = R(8),
                       !.image_height = h, !.smart = sm, !.mix_aspect = m,
                       !.random = IF sm THEN 1 ELSE 0] :
      sm \in BOOLEAN, m \in BOOLEAN, h \in { R(4), R(5) } }

OptCounts == { 1, 2 }

OptPagenos == { << 1, 2, 3 >>, << 1 >> }

InitOpt ==
    /\ args \in OptArgs
    /\ images \in ImageLists(OptCatalog, MaxOptImages)
    /\ pagenos \in OptPagenos
    /\ count \in OptCounts
    /\ g = get_pages_(make_builder(args, <<>>), <<>>)
    /\ pages = <<>>
    /\ ret = None
    /\ trip = None
    /\ NoBook
    /\ pc = "try"
    /\ page_count = 0
    /\ incomplete = FALSE
    /\ best_height = R(0)
    /\ perfect_height = R(0)
    /\ probes = {}

(* page_count, incomplete = _try_it() with the result r of the probe at    *)
(* args a, then on to position to; an exception of the builder ends the    *)
(* program.                                                                *)
Measure(a, r, fine, to) ==
    /\ args' = a
    /\ page_count' = r.count
    /\ incomplete' = r.incomplete
    /\ pagenos' = r.pagenos
    /\ probes' = probes \cup { Probe(a, r, fine) }
    /\ pc' = IF r.err THEN "raised" ELSE to

(* Lines 906-908, and which coarse loop runs.                              *)
MeasureFirst(r) ==
    Measure(args, r, FALSE,
            IF r.count = 0 THEN "print"
            ELSE IF r.count > count THEN "down" ELSE "up")

(* Lines 905-908: the top of while True.                                   *)
TryIt ==
    /\ pc = "try"
    /\ MeasureFirst(try_it(args, images, pagenos))
    /\ UNCHANGED << images, bookvars, g, pages, ret, trip, count, best_height, perfect_height >>

(* Lines 918-919.                                                          *)
StartFine(h) ==
    /\ best_height' = h
    /\ perfect_height' = R(0)
    /\ pc' = "fine"

(* Line 909: the test of while page_count > count, and leaving the loop.   *)
DownTest ==
    /\ pc = "down"
    /\ IF page_count > count
         THEN pc' = "down_body" /\ UNCHANGED << best_height, perfect_height >>
         ELSE StartFine(args.image_height)
    /\ UNCHANGED << args, images, bookvars, pagenos, g, pages, ret, trip, count, page_count,
                    incomplete, probes >>

(* Lines 910-911.                                                          *)
DownBody ==
    /\ pc = "down_body"
    /\ LET a == [args EXCEPT !.image_height = Float(RMul(@, CoarseDown))]
       IN  Measure(a, try_it(a, images, pagenos), FALSE, "down")
    /\ UNCHANGED << images, bookvars, g, pages, ret, trip, count, best_height, perfect_height >>

(* Line 913: the test of while page_count < count; line 917 on leaving.    *)
UpTest ==
    /\ pc = "up"
    /\ IF page_count < count
         THEN pc' = "up_body" /\ UNCHANGED << args, best_height, perfect_height >>
         ELSE LET h == Float(RDiv(args.image_height, CoarseUp))
              IN  /\ args' = [args EXCEPT !.image_height = h]
                  /\ StartFine(h)
    /\ UNCHANGED << images, bookvars, pagenos, g, pages, ret, trip, count, page_count, incomplete, probes >>

(* Lines 914-915.                                                          *)
UpBody ==
    /\ pc = "up_body"
    /\ LET a == [args EXCEPT !.image_height = Float(RMul(@, CoarseUp))]
       IN  Measure(a, try_it(a, images, pagenos), FALSE, "up")
    /\ UNCHANGED << images, bookvars, g, pages, ret, trip, count, best_height, perfect_height >>

(* Line 920: the test of while page_count <= count; lines 927-937 on       *)
(* leaving: the perfect height or else the best one, and one more round    *)
(* with a shorter seed if the result is incomplete, smart and seeded.      *)
FineTest ==
    /\ pc = "fine"
    /\ IF page_count <= count
         THEN /\ pc' = "fine_body"
              /\ UNCHANGED << args, incomplete >>
         ELSE LET perfect == perfect_height # R(0)
                  h == IF perfect THEN perfect_height ELSE best_height
                  inc == IF perfect THEN FALSE ELSE incomplete
                  again == inc /\ args.smart /\ args.random # 0
              IN  /\ incomplete' = inc
                  /\ args' = [args EXCEPT !.image_height = h,
                                          !.random = IF again THEN @ - 1 ELSE @]
                  /\ pc' = IF again THEN "try" ELSE "print"
    /\ UNCHANGED << images, bookvars, pagenos, g, pages, ret, trip, count, page_count, best_height,
                    perfect_height, probes >>

(* Lines 922-926: the probe, and the best and perfect heights so far.      *)
MeasureFine(a, r) ==
    /\ Measure(a, r, TRUE, "fine")
    /\ best_height' = IF r.count <= count THEN a.image_height ELSE best_height
    /\ perfect_height' = IF r.count = count /\ ~r.incomplete
                           THEN a.image_height ELSE perfect_height

(* Lines 921-926.                                                          *)
FineBody ==
    /\ pc = "fine_body"
    /\ LET a == [args EXCEPT !.image_height = Float(RAdd(@, R(1)))]
       IN  MeasureFine(a, try_it(a, images, pagenos))
    /\ UNCHANGED << images, bookvars, g, pages, ret, trip, count >>

(* Lines 938-942: return populate_pages(args, images, pagenos), which the  *)
(* caller drains with list().                                              *)
ReturnPages ==
    /\ pc = "print"
    /\ g' = get_pages_(make_builder(args, images), pagenos)
    /\ pc' = "pages"
    /\ UNCHANGED << args, images, bookvars, pagenos, pages, ret, trip, optvars >>

NextOpt ==
    \/ TryIt
    \/ DownTest
    \/ DownBody
    \/ UpTest
    \/ UpBody
    \/ FineTest
    \/ FineBody
    \/ ReturnPages
    \/ Pass
    \/ Finish

SpecOpt == InitOpt /\ [][NextOpt]_vars

(* The optimizer as a sequential program: the interpreter keeps executing  *)
(* statements, so the program does not stay at a position that is not its  *)
(* end: while it is not at "done" or "raised", its position changes again  *)
(* (the passes of get_pages at "pages" are finitely many).                 *)
Positions ==
    { "try", "down", "down_body", "up", "up_body", "fine", "fine_body",
      "print", "pages", "done", "raised" }

Advance ==
    /\ pc \notin { "done", "raised" }
    /\ pc' \in Positions \ { pc }

SpecOptFair == SpecOpt /\ WF_pc(Advance)

(* The optimizer has left its search: it is at the prints of lines 938-941 *)
(* or past them.                                                           *)
Searched == pc \in { "print", "pages", "done", "raised" }

(* C2: populate_single_page terminates: its coarse and fine loops are left *)
(* after finitely many probes, whatever the images, the destination pages  *)
(* and the desired count.                                                  *)
C2_Terminates == <>Searched

(* C5: of two probes of the same image list and options, the one at the    *)
(* lower image_height measured no more pages than the other.               *)
C5_Monotone ==
    \A p, q \in probes :
       RLt(p.image_height, q.image_height) => p.page_count <= q.page_count

(* The probes of the round that ended the search, and what a layout at the *)
(* height settled on measures.                                             *)
LastRound == { p \in probes : p.random = args.random }

Settled == try_it(args, images, pagenos)

(* C6: after a search, image_height is a perfect height (count pages and a *)
(* complete last row) if the fine loop observed one, and else the largest  *)
(* height observed with at most count pages; a layout at it has at most    *)
(* count pages, and count pages when a perfect height was observed.        *)
C6_SettlesOnBest ==
    (pc = "print" /\ page_count # 0) =>
       LET perfect == { p \in LastRound :
                          p.fine /\ p.page_count = count /\ ~p.incomplete }
           within == { p \in LastRound : p.page_count <= count }
       IN  /\ IF perfect # {}
                THEN /\ \E p \in perfect : p.image_height = args.image_height
                     /\ Settled.count = count
                ELSE \E p \in within :
                        /\ p.image_height = args.image_height
                        /\ \A q \in within : RLe(q.image_height, p.image_height)
           /\ Settled.count <= count

(* C7: the pages that populate_pages lays out at the height the optimizer  *)
(* returned are as many as a probe at that height measured.                *)
C7_RoundTrip ==
    (pc = "done" /\ count # 0) =>
       \E p \in probes :
          /\ p.image_height = args.image_height
          /\ p.page_count = Len(pages)

(* C19: while populate_single_page searches (before it hands over to       *)
(* populate_pages), no step changes the caller's image list or page-number *)
(* list, and two probes at the same image_height measure the same page     *)
(* count and incomplete flag (the other options stay as they are during a  *)
(* search, but for the seed, which no builder reads).                      *)
C19_ProbeLeavesNoTrace ==
    /\ [][pc # "pages" => (images' = images /\ pagenos' = pagenos)]_vars
    /\ [](\A p \in probes : \A q \in probes :
             p.image_height = q.image_height =>
                (p.page_count = q.page_count /\ p.incomplete = q.incomplete))

(* C19 witness: the search has ended with the page-number list whole,      *)
(* after probes of more than one page and two probes at the same height,   *)
(* one in the first round and one in the second.                           *)
C19_Witness ==
    /\ pc = "print"
    /\ pagenos = << 1, 2, 3 >>
    /\ \E p \in probes : p.page_count > 1
    /\ \E p \in probes : \E q \in probes :
          /\ p.image_height = q.image_height
          /\ p.random # q.random

----------------------------------------------------------------------------
(* SpecSeed: the optimizer on image lists that sort_images shuffled with   *)
(* the seed --random.  The seed is kept by its length (0: none), so that   *)
(* args.random[:-1] is one less.  random.shuffle is a permutation fixed by *)
(* the seed; here it is the rotation by the seed's length, which like the  *)
(* library's shuffle gives another order for a shortened seed on lists of  *)
(* two or three images.                                                    *)
MaxSeed == 2

sort_images(ims, a) ==
    IF a.random = 0 THEN ims
    ELSE [k \in 1..Len(ims) |-> ims[((k - 1 + a.random) % Len(ims)) + 1]]

InitSeed ==
    /\ args \in { [a EXCEPT !.random = s] :
                    a \in { b \in OptArgs : ~b.mix_aspect }, s \in 0..MaxSeed }
    /\ images \in { sort_images(l, args) : l \in ImageLists(OptCatalog, MaxOptImages) }
    /\ pagenos \in OptPagenos
    /\ count \in OptCounts
    /\ g = get_pages_(make_builder(args, <<>>), <<>>)
    /\ pages = <<>>
    /\ ret = None
    /\ trip = None
    /\ NoBook
    /\ pc = "try"
    /\ page_count = 0
    /\ incomplete = FALSE
    /\ best_height = R(0)
    /\ perfect_height = R(0)
    /\ probes = {}

SpecSeed == InitSeed /\ [][NextOpt]_vars

(* C20: when the fine phase is left with an incomplete result and a seed   *)
(* drove the image order, the seed loses one unit and the search starts    *)
(* again at the first probe with the images in the order the shortened     *)
(* seed gives (an image's name is its place before the shuffle); in every  *)
(* other case the search ends with the height found, the seed and the      *)
(* images as they are.                                                     *)
C20_SeedRestart ==
    [][(pc = "fine" /\ pc' # "fine_body") =>
          IF incomplete' /\ args.random # 0
          THEN /\ pc' = "try"
               /\ args'.random = args.random - 1
               /\ images' = sort_images([k \in 1..Len(images) |->
                                            CHOOSE i \in { images[j] : j \in 1..Len(images) } :
                                                i.name = k],
                                        args')
          ELSE /\ pc' = "print"
               /\ args'.random = args.random
               /\ images' = images]_vars

(* C29: all images of a row returned by _get_row have the same height on   *)
(* the page (image.height * scale), which is the height _page_height and   *)
(* next_page take from the row's first image.                              *)
C29_RowOneHeight ==
    \A n \in 1..Len(Got) :
       \A k \in 1..Len(Got[n].row) : ImgH(Got[n].row[k]) = ImgH(Got[n].row[1])

(* C22: without mix_aspect, an image that is no panorama and would fit in  *)
(* the row closes it if and only if its aspect ratio and that of the row's *)
(* first image differ by more than the threshold, whichever of the two is  *)
(* larger (their quotient, either way round, is under 0.66); with          *)
(* mix_aspect no such image closes a row.                                  *)
C22_AspectCloses ==
    \A n \in 1..Len(Got) :
       LET e == Got[n]
           first == e.row[1].image
           Deviates(i) == \/ RLt(RDiv(Aspect(i), Aspect(first)), AspectBreak)
                          \/ RLt(RDiv(Aspect(first), Aspect(i)), AspectBreak)
           Fits(i) == RLe(RAdd(RAdd(SumW(e.pref), RMul(args.xspace, R(Len(e.pref)))),
                               PB_preferred_size(g.self, i.width, i.height, first).w),
                          e.page_width)
       IN  /\ \A k \in 2..Len(e.row) :
                 (~args.mix_aspect /\ ~IsPano(e.row[k].image)) => ~Deviates(e.row[k].image)
           /\ (e.how = "break" /\ ~IsPano(e.rejected[1]) /\ Fits(e.rejected[1])) =>
                 (~args.mix_aspect /\ Deviates(e.rejected[1]))

(* C28: with overfill disabled every yielded page holds an image that is   *)
(* on no earlier page, the pages are at most as many as the images, and    *)
(* once the builder holds no image no further page is yielded, whatever    *)
(* destination pages remain.                                               *)
C28_PagesNeedImages ==
    /\ [](~args.overfill =>
             LET Names(n) == UNION { { pages[n].populated.page[r][k].image.name :
                                          k \in 1..Len(pages[n].populated.page[r]) } :
                                        r \in 1..Len(pages[n].populated.page) }
             IN  /\ \A n \in 1..Len(pages) :
                       \E nm \in Names(n) : \A m \in 1..(n - 1) : nm \notin Names(m)
                 /\ Len(pages) <= Len(images))
    /\ [][(~args.overfill /\ Unconsumed(g.self) = 0) => pages' = pages]_vars

(* C28 witness: without overfill get_pages has ended with the images used  *)
(* up on two pages and destination pages left over.                        *)
C28_Witness ==
    /\ ~args.overfill
    /\ pc = "done"
    /\ Len(pages) = 2
    /\ Unconsumed(g.self) = 0
    /\ Len(pagenos) >= 1

----------------------------------------------------------------------------
(* SpecTurn: get_pages of a SmartPageBuilder with --scale and --double     *)
(* over the destination pages 1..4 (a single page, a spread, a single      *)
(* page) and up to MaxTurnImages pictures, so that the rows are buffered   *)
(* anew for the spread after the first page took rows from the first       *)
(* buffer.                                                                 *)
MaxTurnImages == 4

InitTurn ==
    /\ args = [BaseArgs EXCEPT !.smart = TRUE, !.scale = TRUE, !.double = TRUE]
    /\ images \in ImageLists(LayoutCatalog, MaxTurnImages)
    /\ pagenos = << 1, 2, 3, 4 >>
    /\ g = get_pages_(make_builder(args, images), pagenos)
    /\ pages = <<>>
    /\ ret = None
    /\ trip = None
    /\ NoBook
    /\ pc = "pages"
    /\ NoOptimizer

SpecTurn == InitTurn /\ [][Next]_vars

(* C24: the rows SmartPageBuilder._get_row buffers for a page width come   *)
(* out tallest remaining, shortest remaining, middle remaining (index      *)
(* len/2 of the rows sorted by height), tallest again and so on.  Stated   *)
(* on the page that was laid out last, when its width made the builder     *)
(* buffer anew and rows are left in the buffer: the rows next_page got for *)
(* it, the accepted ones and the one it put back, are the first rows out   *)
(* of that buffer.                                                         *)
C24_ThreeWayRotation ==
    LET n == Len(pages)
        p == pages[n].populated
        out == [k \in 1..Len(p.rows) |-> ImgH(p.rows[k][1])]
                  \o (IF p.back = None THEN <<>> ELSE << ImgH(p.back[1][1]) >>)
        left == [k \in 1..Len(g.self.all_rows[1]) |-> ImgH(g.self.all_rows[1][k][1])]
        h == out \o left
        Below(k) == Cardinality({ i \in k..Len(h) : RLt(h[i], h[k]) })
        NotAbove(k) == Cardinality({ i \in k..Len(h) : RLe(h[i], h[k]) })
        mid(k) == (Len(h) - k + 1) \div 2
    IN  (/\ args.smart /\ ~args.overfill /\ n >= 1
         /\ n = 1 \/ pages[n].page_width # pages[n - 1].page_width
         /\ g.self.all_rows # None /\ g.self.all_rows[1] # <<>>) =>
           \A k \in 1..Len(out) :
              /\ k % 3 = 1 => NotAbove(k) = Len(h) - k + 1
              /\ k % 3 = 2 => Below(k) = 0
              /\ k % 3 = 0 => Below(k) <= mid(k) /\ mid(k) < NotAbove(k)

(* C26: with overfill enabled the layout comes to an end: the rows of a    *)
(* finished layout are not laid out again on the destination pages that    *)
(* remain.  No image is on more than two pages (the page it overflows and  *)
(* the page it is carried to), and a run that ends with destination pages  *)
(* left leaves the builder without images.                                 *)
C26_OverfillEnds ==
    (args.overfill /\ pc # "raised") =>
       /\ \A k \in 1..Len(images) : TimesPlaced(k) <= 2
       /\ (pc = "done" /\ pagenos # <<>>) => Unconsumed(g.self) = 0

----------------------------------------------------------------------------
(* SpecDest: get_pages over destination lists with gaps, with --double,    *)
(* --double-only, --odd-only / --even-only and --mirror on and off, left   *)
(* and right margins that differ, and with --overfill on a page lower      *)
(* than a row.                                                             *)

(* The pictures are a square and a panorama 4:1.                           *)
InitDest ==
    /\ args \in { [BaseArgs EXCEPT !.left = R(30), !.right = R(10), !.smart = sm,
                                   !.double = d, !.double_only = o,
                                   !.odd_only = (par = "odd"),
                                   !.even_only = (par = "even"), !.mirror = m,
                                   !.overfill = ov,
                                   !.page_height = IF ov THEN R(100) ELSE R(400)] :
                    sm \in BOOLEAN, d \in BOOLEAN, o \in BOOLEAN, m \in BOOLEAN,
                    ov \in BOOLEAN, par \in { "any", "odd", "even" } }
    /\ images \in ImageLists(<< << 100, 100 >>, << 400, 100 >> >>, MaxImages)
    /\ pagenos \in { << 1, 2, 3, 4 >>, << 2, 3, 5, 6 >>, << 2, 4, 5, 8 >> }
    /\ g = get_pages_(make_builder(args, images), pagenos)
    /\ pages = <<>>
    /\ ret = None
    /\ trip = None
    /\ NoBook
    /\ pc = "pages"
    /\ NoOptimizer

SpecDest == InitDest /\ [][Next]_vars

(* C21: every page number get_pages yields is an element of the caller's   *)
(* destination list, the numbers are yielded in the list's order and none  *)
(* twice, and the right-hand number of a double spread is not yielded as a *)
(* page of its own.                                                        *)
C21_PageNumbers ==
    /\ \A n \in 1..Len(pages) : \E k \in 1..Len(dest) : dest[k] = pages[n].pageno
    /\ \A n \in 1..Len(pages) : \A m \in 1..Len(pages) :
          n < m =>
             \E k \in 1..Len(dest) : \E l \in 1..Len(dest) :
                /\ k < l
                /\ dest[k] = pages[n].pageno
                /\ dest[l] = pages[m].pageno
                /\ pages[n].pageno # pages[m].pageno
                /\ pages[n].double => l > k + 1
    /\ \A n \in 1..Len(pages) : \A m \in 1..Len(pages) :
          pages[n].double => pages[m].pageno # pages[n].pageno + 1

(* C21 witness: a spread 2-3 and then page 5 were yielded from the list    *)
(* 2, 3, 5, 6.                                                             *)
C21_Witness ==
    /\ dest = << 2, 3, 5, 6 >>
    /\ Len(pages) = 2
    /\ pages[1].pageno = 2 /\ pages[1].double
    /\ pages[2].pageno = 5 /\ ~pages[2].double

(* C25: a page is yielded as a double spread only when --double is on, its *)
(* number is even and the next entry of the destination list is that       *)
(* number + 1; a spread takes both numbers off the list and is packed with *)
(* the width of two pages less the margins, any other page with the width  *)
(* of one; with --double-only every populated page is a spread.            *)
C25_Spreads ==
    \A n \in 1..Len(pages) :
       LET p == pages[n]
           margins == IF args.mirror /\ p.double THEN RMul(args.right, R(2))
                      ELSE RAdd(args.left, args.right)
       IN  /\ p.double =>
                /\ args.double
                /\ p.pageno % 2 = 0
                /\ \E k \in 1..(Len(dest) - 1) :
                      dest[k] = p.pageno /\ dest[k + 1] = p.pageno + 1
                /\ \A k \in 1..Len(pagenos) : pagenos[k] # p.pageno + 1
           /\ \A k \in 1..Len(pagenos) : pagenos[k] # p.pageno
           /\ p.page_width = RSub(RMul(args.page_width, R(IF p.double THEN 2 ELSE 1)),
                                  margins)
           /\ args.double_only => p.double

(* C25 witness: with --double-only the list 2, 4, 5, 8 gave the spread 4-5 *)
(* and nothing else.                                                       *)
C25_Witness ==
    /\ args.double_only
    /\ dest = << 2, 4, 5, 8 >>
    /\ Len(pages) = 1
    /\ pages[1].pageno = 4
    /\ pages[1].double
    /\ pages[1].page_width = R(1160)
    /\ pagenos = << 8 >>

(* C23 (as claimed): with mirror on and neither xcenter nor xspread, every *)
(* row's left edge is at x = right on even pages and at x = left on odd    *)
(* pages.                                                                  *)
C23_MirrorMargins ==
    (args.mirror /\ ~args.xcenter /\ ~args.xspread) =>
       \A n \in 1..Len(pages) : \A r \in 1..Len(pages[n].populated.page) :
          pages[n].populated.page[r][1].x
             = IF pages[n].pageno % 2 = 0 THEN args.right ELSE args.left

(* C23 (amended): with mirror on and neither xcenter nor xspread, on even  *)
(* pages every row's left edge is at x = right; on odd pages every row is  *)
(* flush right: its right edge is at x = left + the width the page was     *)
(* packed with, so its left edge is at x = left only if the row fills that *)
(* width.                                                                  *)
C23_MirrorOuterEdge ==
    (args.mirror /\ ~args.xcenter /\ ~args.xspread) =>
       \A n \in 1..Len(pages) : \A r \in 1..Len(pages[n].populated.page) :
          LET row == pages[n].populated.page[r]
              end == row[Len(row)]
          IN  IF pages[n].pageno % 2 = 0
              THEN row[1].x = args.right
              ELSE RAdd(end.x, ImgW(end)) = RAdd(args.left, pages[n].page_width)

(* C23 witness: a mirrored odd page with a row 200 wide, which starts at   *)
(* x = 30 + 560 - 200.                                                     *)
C23_Witness ==
    /\ args.mirror /\ ~args.xcenter /\ ~args.xspread
    /\ Len(pages) >= 1
    /\ pages[1].pageno = 1
    /\ Len(pages[1].populated.page[1]) = 1
    /\ ImgW(pages[1].populated.page[1][1]) = R(200)
    /\ pages[1].populated.page[1][1].x = R(390)

(* C27: with overfill enabled, a page whose content is higher than the     *)
(* available height has at least two rows when _generate_page un-gets      *)
(* rows[-1] and rows[-2], on the first page too, and SmartPageBuilder has  *)
(* two carried rows to pop on every page after the first: no call of       *)
(* _generate_page raises IndexError.                                       *)
C27_OverfillTwoRows ==
    args.overfill =>
       /\ ~g.err
       /\ pc # "raised"
       /\ \A n \in 1..Len(pages) :
             /\ RGt(page_height_(g.self, pages[n].populated.rows), g.self.page_height)
                   => Len(pages[n].populated.rows) >= 2
             /\ (args.smart /\ ~pages[n].first) => Len(pages[n].populated.rows) >= 2

----------------------------------------------------------------------------
(* SpecBook: populate_sections.  The images are mapped to one or two       *)
(* sections (find_sections), and populate_section is called for each in    *)
(* turn with the same destination list: it takes page numbers off the list *)
(* for --section-start, the title page and the blank pages, drains         *)
(* get_pages, writes the pages to the document and takes the blank end     *)
(* pages off.  image_height is the page height, so that every row fills a  *)
(* page.                                                                   *)
InitBook ==
    /\ args \in { [BaseArgs EXCEPT !.image_height = R(400), !.double = d]
                     @@ [section_start |-> st, section_add_title |-> t,
                         section_blank_start |-> 0, section_blank_end |-> be] :
                  d \in BOOLEAN, st \in { "none", "even", "full" }, t \in BOOLEAN,
                  be \in { 0, 1 } }
    /\ images \in ImageLists(<< << 100, 100 >>, << 400, 100 >> >>, MaxImages)
    /\ \E cut \in 1..Len(images) :
          sections = IF cut = Len(images) THEN << images >>
                     ELSE << SubSeq(images, 1, cut), SubSeq(images, cut + 1, Len(images)) >>
    /\ pagenos \in { << 1, 2, 3, 4, 5, 6 >>, << 2, 3, 4, 6, 7, 9 >> }
    /\ dest = pagenos
    /\ doc = <<>>
    /\ g = None
    /\ pages = <<>>
    /\ ret = None
    /\ trip = None
    /\ pc = "section"
    /\ NoOptimizer

(* populate_section, lines 946-961, for the next section: up to the call   *)
(* of populate_pages, whose generator list() then drains pass by pass.     *)
(* pagenos.pop(0) of line 954 raises IndexError on an empty list.          *)
BeginSection ==
    /\ pc = "section"
    /\ sections # <<>>
    /\ LET From(l, par) ==
               LET idx == { k \in 1..Len(l) : l[k] % 2 = par }
               IN  IF idx = {} THEN <<>>
                   ELSE SubSeq(l, CHOOSE k \in idx : \A j \in idx : k <= j, Len(l))
           p1 == IF args.section_start \in { "even", "full" } THEN From(pagenos, 0)
                 ELSE pagenos
           p2 == IF args.section_start \in { "odd", "full" } THEN From(p1, 1) ELSE p1
           raised == args.section_add_title /\ p2 = <<>>
           p3 == IF args.section_add_title /\ p2 # <<>> THEN Tail(p2) ELSE p2
           p4 == SubSeq(p3, args.section_blank_start + 1, Len(p3))
       IN  /\ images' = sort_images(Head(sections), args)
           /\ sections' = Tail(sections)
           /\ pagenos' = IF raised THEN p2 ELSE p4
           /\ g' = IF raised THEN g
                   ELSE get_pages_(make_builder(args, images'), p4)
           /\ pc' = IF raised THEN "raised" ELSE "pages"
    /\ pages' = <<>>
    /\ UNCHANGED << args, ret, trip, optvars, dest, doc >>

(* populate_section, lines 962-969, once list() has returned: update_blurb *)
(* writes the section's pages and the blank end pages leave the list.      *)
CloseSection ==
    /\ pc = "done"
    /\ doc' = Append(doc, pages)
    /\ pagenos' = SubSeq(pagenos, args.section_blank_end + 1, Len(pagenos))
    /\ pc' = "section"
    /\ UNCHANGED << args, images, g, pages, ret, trip, optvars, dest, sections >>

SpecBook == InitBook /\ [][BeginSection \/ Pass \/ Finish \/ CloseSection]_vars

====
